---- MODULE Spec2Model ----
(***************************************************************************)
(* Stock news fetcher: the four variants of stock_news_app.py             *)
(*   hello.py    Streamlit page with sentiment labels                      *)
(*   sshare.py   Streamlit page, two stock lists, three periods            *)
(*   share.py    console menu loop                                         *)
(*   shharee.py  date helper only                                          *)
(* Strings are sequences of one-character strings, so that formatting,     *)
(* joining and slicing are computed character by character.                *)
(***************************************************************************)
EXTENDS Integers, Sequences, FiniteSets, TLC

VARIABLES
    variant,      \* which of the four scripts is running
    clock,        \* calendar date of the system clock, [year, month, day]
    ticks,        \* midnights passed since the start of the behaviour
    pc,           \* position of the script: "menu", "exited", "idle", "start", "done"
    period_name,  \* argument of the latest get_date_range call
    today,        \* get_date_range's local `today` at its latest call
    from_date,    \* first component returned by the latest get_date_range call
    to_date,      \* second component returned by the latest get_date_range call
    api_key,      \* sidebar text input (Streamlit) or NEWS_API_KEY (share.py)
    upstream,     \* health of the remote symbol sources
    remoteLen,    \* number of symbols the remote sources currently list
    cache,        \* st.cache_data store of the symbol-list fetchers
    category,     \* stock list selected in the latest action
    stock_list,   \* stock_list of the latest action
    query,        \* query string built by the latest fetch_news_for_stocks call
    calls,        \* functions and remote services invoked during the latest action
    shown         \* messages displayed during the latest action

vars == <<variant, clock, ticks, pc, period_name, today, from_date, to_date,
          api_key, upstream, remoteLen, cache, category, stock_list, query,
          calls, shown>>

resolverVars == <<period_name, today, from_date, to_date>>
appVars == <<api_key, upstream, remoteLen, cache, category, stock_list, query, shown>>

-----------------------------------------------------------------------------
(* Bounds *)

LastYear == 2024    \* last year the clock may start in
NumYears == 2       \* number of consecutive years the clock may start in
MaxTicks == 2       \* midnights that may pass in one behaviour
MaxStocks == 16     \* longest symbol list a remote source returns

-----------------------------------------------------------------------------
(* Characters and strings *)

Digits == <<"0", "1", "2", "3", "4", "5", "6", "7", "8", "9">>

DigitChar(d) == Digits[d + 1]

IsDigit(c) == \E d \in 0..9 : Digits[d + 1] = c

DigitVal(c) == CHOOSE d \in 0..9 : Digits[d + 1] = c

\* "%04d" / "%02d": n written in decimal, zero-padded on the left to width w
RECURSIVE ZeroPad(_, _)
ZeroPad(n, w) ==
    IF w <= 1 /\ n < 10 THEN <<DigitChar(n)>>
    ELSE ZeroPad(n \div 10, w - 1) \o <<DigitChar(n % 10)>>

\* str.join: the items separated by sep
RECURSIVE Join(_, _)
Join(items, sep) ==
    IF items = <<>> THEN <<>>
    ELSE IF Len(items) = 1 THEN items[1]
    ELSE items[1] \o sep \o Join(Tail(items), sep)

\* Python slice s[:n]
Prefix(s, n) == SubSeq(s, 1, IF Len(s) < n THEN Len(s) ELSE n)

-----------------------------------------------------------------------------
(* datetime: the proleptic Gregorian calendar of the datetime module        *)

DaysInMonthTable == <<31, 28, 31, 30, 31, 30, 31, 31, 30, 31, 30, 31>>

DaysBeforeMonthTable == <<0, 31, 59, 90, 120, 151, 181, 212, 243, 273, 304, 334>>

IsLeap(year) == year % 4 = 0 /\ (year % 100 # 0 \/ year % 400 = 0)

DaysInMonth(year, month) ==
    IF month = 2 /\ IsLeap(year) THEN 29 ELSE DaysInMonthTable[month]

DaysBeforeYear(year) ==
    LET y == year - 1 IN y * 365 + (y \div 4) - (y \div 100) + (y \div 400)

DaysBeforeMonth(year, month) ==
    DaysBeforeMonthTable[month] + (IF month > 2 /\ IsLeap(year) THEN 1 ELSE 0)

\* date.toordinal
Ymd2Ord(date) ==
    DaysBeforeYear(date.year) + DaysBeforeMonth(date.year, date.month) + date.day

DI400Y == DaysBeforeYear(401)
DI100Y == DaysBeforeYear(101)
DI4Y == DaysBeforeYear(5)

\* date.fromordinal
Ord2Ymd(ordinal) ==
    LET n0 == ordinal - 1
        n400 == n0 \div DI400Y
        r400 == n0 % DI400Y
        n100 == r400 \div DI100Y
        r100 == r400 % DI100Y
        n4 == r100 \div DI4Y
        r4 == r100 % DI4Y
        n1 == r4 \div 365
        n == r4 % 365
        year == n400 * 400 + 1 + n100 * 100 + n4 * 4 + n1
        leapyear == n1 = 3 /\ (n4 # 24 \/ n100 = 3)
        guess == (n + 50) \div 32
        before(m) == DaysBeforeMonthTable[m] + (IF m > 2 /\ leapyear THEN 1 ELSE 0)
        month == IF before(guess) > n THEN guess - 1 ELSE guess
    IN  IF n1 = 4 \/ n100 = 4
        THEN [year |-> year - 1, month |-> 12, day |-> 31]
        ELSE [year |-> year, month |-> month, day |-> n - before(month) + 1]

\* slip: the offset is added to the date
SubtractDaysAdds(date, days) == Ord2Ymd(Ymd2Ord(date) + days)

\* slip: periods of a month or more are counted in calendar months of 30 days
SubtractDaysByMonths(date, days) ==
    LET total == date.year * 12 + (date.month - 1) - (days \div 30)
        y == total \div 12
        m == (total % 12) + 1
        last == DaysInMonth(y, m)
    IN  IF days < 30 THEN Ord2Ymd(Ymd2Ord(date) - days)
        ELSE [year |-> y, month |-> m, day |-> IF date.day < last THEN date.day ELSE last]

\* datetime - timedelta(days=days)
SubtractDays(date, days) == Ord2Ymd(Ymd2Ord(date) - days)

\* datetime.strftime: fmt is a sequence of directives and literal characters
StrftimeItem(item, date) ==
    CASE item = "%Y" -> ZeroPad(date.year, 4)
      [] item = "%m" -> ZeroPad(date.month, 2)
      [] item = "%d" -> ZeroPad(date.day, 2)
      [] OTHER -> <<item>>

RECURSIVE Strftime(_, _)
Strftime(fmt, date) ==
    IF fmt = <<>> THEN <<>>
    ELSE StrftimeItem(Head(fmt), date) \o Strftime(Tail(fmt), date)

-----------------------------------------------------------------------------
(* The system clock *)

ValidDates(years) ==
    { d \in [year : years, month : 1..12, day : 1..31] :
        d.day <= DaysInMonth(d.year, d.month) }

NextDay(date) ==
    IF date.day < DaysInMonth(date.year, date.month)
    THEN [date EXCEPT !.day = date.day + 1]
    ELSE IF date.month < 12
    THEN [date EXCEPT !.month = date.month + 1, !.day = 1]
    ELSE [year |-> date.year + 1, month |-> 1, day |-> 1]

\* Midnight passes
Tick ==
    /\ ticks < MaxTicks
    /\ clock' = NextDay(clock)
    /\ ticks' = ticks + 1
    /\ UNCHANGED <<variant, pc, calls>>
    /\ UNCHANGED resolverVars
    /\ UNCHANGED appVars

-----------------------------------------------------------------------------
(* get_date_range *)

Variants == {"hello", "share", "shharee", "sshare"}

NoDate == [year |-> 0, month |-> 0, day |-> 0]

\* slip: the clock is read once and the reading reused by later calls
NowFrozen == IF today = NoDate THEN clock ELSE today

\* datetime.now(), as far as strftime("%Y-%m-%d") can tell
Now == clock

\* slip: the long periods are counted in weeks
PeriodDaysInWeeks(v, name) ==
    CASE name = "last_4_weeks" /\ v # "sshare" -> 4 * 7
      [] name = "one_month" /\ v = "sshare" -> 30
      [] name = "last_3_months" /\ v # "sshare" -> 12 * 7
      [] name = "three_months" /\ v = "sshare" -> 12 * 7
      [] name = "last_6_months" /\ v # "sshare" -> 26 * 7
      [] OTHER -> 7

\* slip: every variant counts its month-scale tag as 30 days
PeriodDaysThirty(v, name) ==
    CASE name = "last_4_weeks" /\ v # "sshare" -> 30
      [] name = "one_month" /\ v = "sshare" -> 30
      [] name = "last_3_months" /\ v # "sshare" -> 90
      [] name = "three_months" /\ v = "sshare" -> 90
      [] name = "last_6_months" /\ v # "sshare" -> 180
      [] OTHER -> 7

\* slip: the else branch falls back to a month instead of a week
PeriodDaysDefaultMonth(v, name) ==
    CASE name = "last_week" -> 7
      [] name = "last_4_weeks" /\ v # "sshare" -> 4 * 7
      [] name = "one_month" /\ v = "sshare" -> 30
      [] name = "last_3_months" /\ v # "sshare" -> 90
      [] name = "three_months" /\ v = "sshare" -> 90
      [] name = "last_6_months" /\ v # "sshare" -> 180
      [] OTHER -> 30

\* days between from_date and today for each period tag
PeriodDays(v, name) ==
    IF v = "sshare"
    THEN CASE name = "last_week" -> 7
           [] name = "one_month" -> 30
           [] name = "three_months" -> 90
           [] OTHER -> 7
    ELSE CASE name = "last_week" -> 7
           [] name = "last_4_weeks" -> 4 * 7
           [] name = "last_3_months" -> 90
           [] name = "last_6_months" -> 180
           [] OTHER -> 7

FromFormat(v) == <<"%Y", "-", "%m", "-", "%d">>

ToFormat(v) ==
    IF v = "shharee"
    THEN <<"%Y", "-", "m", "-", "%d">>
    ELSE <<"%Y", "-", "%m", "-", "%d">>

\* the body of get_date_range; t is the value read from the clock
GetDateRange(v, name, t) ==
    <<Strftime(FromFormat(v), SubtractDays(t, PeriodDays(v, name))),
      Strftime(ToFormat(v), t)>>

\* get_date_range(name) and its effect on the state
DateRangeCall(name) ==
    LET t == Now
        range == GetDateRange(variant, name, t)
    IN  /\ period_name' = name
        /\ today' = t
        /\ from_date' = range[1]
        /\ to_date' = range[2]

-----------------------------------------------------------------------------
(* Symbol lists *)

Str_RELIANCE == <<"R", "E", "L", "I", "A", "N", "C", "E">>
Str_TCS == <<"T", "C", "S">>
Str_INFY == <<"I", "N", "F", "Y">>
Str_HDFCBANK == <<"H", "D", "F", "C", "B", "A", "N", "K">>
Str_ICICIBANK == <<"I", "C", "I", "C", "I", "B", "A", "N", "K">>

\* the fallback list of sshare.py's get_fno_stocks
BackupList == <<Str_RELIANCE, Str_TCS, Str_INFY, Str_HDFCBANK, Str_ICICIBANK>>

Sources == {"fno", "NIFTY 100", "NIFTY MIDCAP 150", "NIFTY SMALLCAP 250"}

SourceLetter(source) ==
    CASE source = "fno" -> "f"
      [] source = "NIFTY 100" -> "l"
      [] source = "NIFTY MIDCAP 150" -> "m"
      [] source = "NIFTY SMALLCAP 250" -> "s"

\* the i-th symbol as the remote source spells it: lower case, and padded with
\* blanks in the CSV file
RemoteSymbol(source, i) ==
    LET name == <<SourceLetter(source)>> \o ZeroPad(i, 2)
    IN  IF source = "fno" THEN <<" ">> \o name \o <<" ">> ELSE name

RemoteSymbols(source) == [i \in 1..remoteLen |-> RemoteSymbol(source, i)]

\* str.strip
RECURSIVE LStrip(_)
LStrip(s) == IF s # <<>> /\ Head(s) = " " THEN LStrip(Tail(s)) ELSE s

RECURSIVE RStrip(_)
RStrip(s) ==
    IF s # <<>> /\ s[Len(s)] = " " THEN RStrip(SubSeq(s, 1, Len(s) - 1)) ELSE s

Strip(s) == RStrip(LStrip(s))

UpperChar(c) ==
    CASE c = "f" -> "F"
      [] c = "l" -> "L"
      [] c = "m" -> "M"
      [] c = "s" -> "S"
      [] OTHER -> c

\* str.upper
Upper(s) == [i \in 1..Len(s) |-> UpperChar(s[i])]

\* get_fno_stocks, uncached body: the list it returns
GetFnoStocks(v) ==
    IF upstream = "failing"
    THEN IF v = "sshare" THEN BackupList ELSE <<>>
    ELSE LET column == RemoteSymbols("fno")
         IN  [i \in 1..Len(column) |-> Upper(Strip(column[i]))]

\* get_index_stocks(index_name), uncached body: the list it returns
GetIndexStocks(index_name) ==
    IF upstream = "failing" THEN <<>>
    ELSE LET listed == RemoteSymbols(index_name)
         IN  IF listed = <<>> THEN <<>>
             ELSE [i \in 1..Len(listed) |-> Upper(listed[i])]

\* the fetcher behind each source, uncached
FetchSource(v, source) ==
    IF source = "fno" THEN GetFnoStocks(v) ELSE GetIndexStocks(source)

NotCached == [stored |-> FALSE, value |-> <<>>]

\* whether the call runs the body, and so contacts the remote source
CacheMissAlways(source) == TRUE

CacheMiss(source) == ~cache[source].stored

\* @st.cache_data: the stored value when there is one, else the body's value
CachedValue(v, source) ==
    IF CacheMiss(source) THEN FetchSource(v, source) ELSE cache[source].value

\* @st.cache_data: the store after a call that returned value
CacheAfter(source, value) ==
    IF CacheMiss(source)
    THEN [cache EXCEPT ![source] = [stored |-> TRUE, value |-> value]]
    ELSE cache

-----------------------------------------------------------------------------
(* fetch_news_for_stocks *)

QueryLimit == 15

Placeholder == "YOUR_API_KEY_HERE"

Str_OR == <<" ", "O", "R", " ">>

Str_Keywords ==
    <<")", " ", "A", "N", "D", " ", "(", "s", "t", "o", "c", "k", " ", "O", "R", " ",
      "m", "a", "r", "k", "e", "t", " ", "O", "R", " ", "N", "S", "E", " ", "O", "R",
      " ", "B", "S", "E", ")">>

\* slip: share.py tests for the empty string, as the Streamlit variants do
CredentialMissingEmptyOnly(v, key) == key = ""

\* slip: the list is tested against None, which no fetcher returns
ListEmptyIsNone(list) == FALSE

\* slip: the whole list goes into the query
StocksForQueryAll(list) == list

\* the guard on the credential: `not api_key`, or the placeholder test of share.py
CredentialMissing(v, key) ==
    IF v = "share" THEN key = Placeholder ELSE key = ""

\* `not stock_list`
ListEmpty(list) == list = <<>>

\* stock_list[:15]
StocksForQuery(list) == Prefix(list, QueryLimit)

\* f"({' OR '.join(stocks_for_query)}) AND (stock OR market OR NSE OR BSE)"
BuildQuery(list) == <<"(">> \o Join(StocksForQuery(list), Str_OR) \o Str_Keywords

Outcomes == {"articles", "no_results", "exception"}

\* fetch_news_for_stocks: the query it builds, what it invokes and what it shows,
\* given the outcome of the remote search
FetchNews(v, key, list, outcome) ==
    IF CredentialMissing(v, key)
    THEN [query |-> <<>>, calls |-> {}, shown |-> {"api_key_missing"}]
    ELSE IF ListEmpty(list)
    THEN [query |-> <<>>, calls |-> {}, shown |-> {"no_stock_list"}]
    ELSE [query |-> BuildQuery(list),
          calls |-> {"get_everything"},
          shown |-> {"query", "date_range"} \cup
                    (CASE outcome = "articles" -> {"found", "articles"}
                       [] outcome = "no_results" -> {"found", "no_news"}
                       [] outcome = "exception" -> {"news_error"})]

-----------------------------------------------------------------------------
(* Shared pieces of the three front ends *)

NoPeriod == "<none>"
NoCategory == "<none>"

\* nothing of get_date_range exists in a fresh script namespace
ResolverUnset ==
    /\ period_name' = NoPeriod
    /\ today' = NoDate
    /\ from_date' = <<>>
    /\ to_date' = <<>>

\* the remote symbol sources start failing (a network error, a changed file
\* layout, an index name the service no longer knows) or recover
SetUpstream(u) ==
    /\ variant # "shharee"
    /\ upstream # u
    /\ upstream' = u
    /\ UNCHANGED <<variant, clock, ticks, pc, calls>>
    /\ UNCHANGED resolverVars
    /\ UNCHANGED <<api_key, remoteLen, cache, category, stock_list, query, shown>>

-----------------------------------------------------------------------------
(* hello.py and sshare.py: one run of the Streamlit script *)

\* values of stock_list_options, by the source each fetcher reads
StockListOptions(v) ==
    IF v = "hello" THEN {"fno", "NIFTY 100", "NIFTY MIDCAP 150", "NIFTY SMALLCAP 250"}
    ELSE {"fno", "NIFTY MIDCAP 150"}

\* slip: sshare.py offers the period tags of hello.py
PeriodOptionsShared(v) ==
    {"last_week", "last_4_weeks", "last_3_months", "last_6_months"}

\* values of period_options
PeriodOptions(v) ==
    IF v = "hello" THEN {"last_week", "last_4_weeks", "last_3_months", "last_6_months"}
    ELSE {"last_week", "one_month", "three_months"}

\* `if not api_key:` of the Get News handler
HandlerKeyMissing(key) == key = ""

\* The script runs top to bottom: the widgets are read, and when Get News was
\* pressed the handler runs until it ends or calls st.stop().  The selections
\* of the two select boxes and the answer of the news service are drawn where
\* the handler first uses them.
StreamlitRun(key, pressed) ==
    /\ variant \in {"hello", "sshare"}
    /\ api_key' = key
    /\ UNCHANGED <<variant, clock, ticks, pc, upstream, remoteLen>>
    /\ IF ~pressed
       THEN /\ shown' = {"configure"}
            /\ calls' = {}
            /\ category' = NoCategory
            /\ stock_list' = <<>>
            /\ query' = <<>>
            /\ ResolverUnset
            /\ UNCHANGED cache
       ELSE IF HandlerKeyMissing(key)
       THEN /\ shown' = {"enter_key"}
            /\ calls' = {}
            /\ category' = NoCategory
            /\ stock_list' = <<>>
            /\ query' = <<>>
            /\ ResolverUnset
            /\ UNCHANGED cache
       ELSE \E source \in StockListOptions(variant) :
            LET list == CachedValue(variant, source)
                fetched == {"stock_list_func"} \cup
                           (IF CacheMiss(source) THEN {"remote_fetch"} ELSE {})
            IN  /\ category' = source
                /\ stock_list' = list
                /\ cache' = CacheAfter(source, list)
                /\ IF ListEmpty(list)
                   THEN /\ shown' = {"could_not_retrieve"}
                        /\ calls' = fetched
                        /\ query' = <<>>
                        /\ ResolverUnset
                   ELSE \E tag \in PeriodOptions(variant), outcome \in Outcomes :
                        LET news == FetchNews(variant, key, list, outcome)
                        IN  /\ DateRangeCall(tag)
                            /\ query' = news.query
                            /\ calls' = fetched \cup news.calls \cup
                                        {"get_date_range", "fetch_news_for_stocks"}
                            /\ shown' = {"fetched"} \cup news.shown \cup
                                        (IF "articles" \in news.shown
                                         THEN {} ELSE {"no_articles"})

-----------------------------------------------------------------------------
(* share.py: one iteration of the menu loop of main *)

Choices == {"0", "1", "2", "3", "4", "9"}

PeriodChoices == {"a", "B", "c", "d", "z"}

\* str.lower, on the answers the period prompt can get
Lower(c) == IF c = "B" THEN "b" ELSE c

SourceOfChoice(choice) ==
    CASE choice = "1" -> "fno"
      [] choice = "2" -> "NIFTY 100"
      [] choice = "3" -> "NIFTY MIDCAP 150"
      [] choice = "4" -> "NIFTY SMALLCAP 250"

PeriodOfChoice(period_choice) ==
    CASE period_choice = "a" -> "last_week"
      [] period_choice = "b" -> "last_4_weeks"
      [] period_choice = "c" -> "last_3_months"
      [] period_choice = "d" -> "last_6_months"
      [] OTHER -> "last_week"

\* slip: an exception of the news search leaves fetch_news_for_stocks
AfterNewsUncaught(messages) == IF "news_error" \in messages THEN "crashed" ELSE "menu"

\* where main is once fetch_news_for_stocks is over: the call of the news
\* service sits in try/except Exception, so whatever was shown, main goes on to
\* "Press Enter" and the next pass of the loop
AfterNews(messages) == "menu"

\* One pass through the body of `while True`: the prompts are answered in the
\* order main asks them.
MainLoopIteration(choice) ==
    /\ variant = "share"
    /\ pc = "menu"
    /\ UNCHANGED <<variant, clock, ticks, api_key, upstream, remoteLen, cache>>
    /\ IF choice = "0"
       THEN /\ pc' = "exited"
            /\ shown' = {"goodbye"}
            /\ calls' = {}
            /\ category' = NoCategory
            /\ stock_list' = <<>>
            /\ query' = <<>>
            /\ UNCHANGED resolverVars
       ELSE IF choice \notin {"1", "2", "3", "4"}
       THEN /\ pc' = "menu"
            /\ shown' = {"invalid_choice"}
            /\ calls' = {}
            /\ category' = NoCategory
            /\ stock_list' = <<>>
            /\ query' = <<>>
            /\ UNCHANGED resolverVars
       ELSE LET source == SourceOfChoice(choice)
                list == FetchSource(variant, source)
            IN  /\ category' = source
                /\ stock_list' = list
                /\ IF ListEmpty(list)
                   THEN /\ pc' = "menu"
                        /\ shown' = {"could_not_retrieve"}
                        /\ calls' = {"stock_list_func", "remote_fetch"}
                        /\ query' = <<>>
                        /\ UNCHANGED resolverVars
                   ELSE \E answer \in PeriodChoices, outcome \in Outcomes :
                        LET period_choice == Lower(answer)
                            news == FetchNews(variant, api_key, list, outcome)
                        IN  /\ pc' = AfterNews(news.shown)
                            /\ DateRangeCall(PeriodOfChoice(period_choice))
                            /\ query' = news.query
                            /\ calls' = {"stock_list_func", "remote_fetch",
                                         "get_date_range", "fetch_news_for_stocks"}
                                        \cup news.calls
                            /\ shown' = news.shown \cup
                                        (IF period_choice \in {"a", "b", "c", "d"}
                                         THEN {} ELSE {"invalid_period"})

-----------------------------------------------------------------------------
(* shharee.py: the __main__ block *)

ShhareeMain ==
    /\ variant = "shharee"
    /\ pc = "start"
    /\ pc' = "done"
    /\ DateRangeCall("last_3_months")
    /\ calls' = {"get_date_range"}
    /\ shown' = {"date_range"}
    /\ UNCHANGED <<variant, clock, ticks, api_key, upstream, remoteLen, cache,
                   category, stock_list, query>>

-----------------------------------------------------------------------------
(* The programs *)

Upstreams == {"healthy", "failing"}

\* lengths of the remote lists: empty, one symbol, the query limit, and beyond it
RemoteLens == {0, 1, QueryLimit, MaxStocks}

LaunchDate == [year |-> 2024, month |-> 3, day |-> 15]

StartDates == {LaunchDate, [year |-> 2024, month |-> 12, day |-> 30]}

InitialPc(v) ==
    CASE v = "share" -> "menu"
      [] v = "shharee" -> "start"
      [] OTHER -> "idle"

InitialKeys(v) == IF v = "share" THEN {Placeholder, "", "key"} ELSE {""}

InitCommon ==
    /\ variant \in Variants
    /\ ticks = 0
    /\ period_name = NoPeriod
    /\ today = NoDate
    /\ from_date = <<>>
    /\ to_date = <<>>
    /\ cache = [s \in Sources |-> NotCached]
    /\ category = NoCategory
    /\ stock_list = <<>>
    /\ query = <<>>
    /\ calls = {}
    /\ shown = {}

Init ==
    /\ InitCommon
    /\ clock = LaunchDate
    /\ pc = InitialPc(variant)
    /\ api_key \in InitialKeys(variant)
    /\ upstream \in (IF variant = "shharee" THEN {"healthy"} ELSE Upstreams)
    /\ remoteLen \in (IF variant = "shharee" THEN {0} ELSE RemoteLens)

Next ==
    \/ \E u \in Upstreams : SetUpstream(u)
    \/ \E key \in {"", "key"}, pressed \in BOOLEAN : StreamlitRun(key, pressed)
    \/ \E choice \in Choices : MainLoopIteration(choice)
    \/ ShhareeMain

Spec == Init /\ [][Next]_vars

-----------------------------------------------------------------------------
(* get_date_range called directly, with any string and at any date *)

PeriodNames ==
    {"last_week", "last_4_weeks", "last_3_months", "last_6_months",
     "one_month", "three_months", "bogus_value", "Last_Week", ""}

Resolve(name) ==
    /\ pc = "call"
    /\ DateRangeCall(name)
    /\ calls' = {"get_date_range"}
    /\ UNCHANGED <<variant, clock, ticks, pc>>
    /\ UNCHANGED appVars

InitResolver ==
    /\ InitCommon
    /\ clock \in ValidDates(LastYear - NumYears + 1 .. LastYear)
    /\ pc = "call"
    /\ api_key = ""
    /\ upstream = "healthy"
    /\ remoteLen = 0

NextResolver == \E name \in PeriodNames : Resolve(name)

SpecResolver == InitResolver /\ [][NextResolver]_vars

-----------------------------------------------------------------------------
(* get_date_range called repeatedly while the clock advances *)

InitCalls ==
    /\ InitCommon
    /\ clock \in StartDates
    /\ pc = "call"
    /\ api_key = ""
    /\ upstream = "healthy"
    /\ remoteLen = 0

NextCalls ==
    \/ Tick
    \/ \E name \in PeriodNames : Resolve(name)

SpecCalls == InitCalls /\ [][NextCalls]_vars

-----------------------------------------------------------------------------
(* get_date_range statement by statement, the clock advancing in between *)

\* the call: period_name is bound, the locals are not yet
EnterGetDateRange(name) ==
    /\ pc = "call"
    /\ pc' = "entered"
    /\ period_name' = name
    /\ today' = NoDate
    /\ from_date' = <<>>
    /\ to_date' = <<>>
    /\ calls' = {}
    /\ UNCHANGED <<variant, clock, ticks>>
    /\ UNCHANGED appVars

\* today = datetime.now(): the one statement of the function that reads the clock
ReadClock ==
    /\ pc = "entered"
    /\ pc' = "read"
    /\ today' = Now
    /\ UNCHANGED <<variant, clock, ticks, calls, period_name, from_date, to_date>>
    /\ UNCHANGED appVars

\* the if/elif chain and the return: both strings are made from the local today
ReturnDateRange ==
    /\ pc = "read"
    /\ pc' = "call"
    /\ from_date' = GetDateRange(variant, period_name, today)[1]
    /\ to_date' = GetDateRange(variant, period_name, today)[2]
    /\ calls' = {"get_date_range"}
    /\ UNCHANGED <<variant, clock, ticks, period_name, today>>
    /\ UNCHANGED appVars

NextSteps ==
    \/ Tick
    \/ \E name \in PeriodNames : EnterGetDateRange(name)
    \/ ReadClock
    \/ ReturnDateRange

SpecSteps == InitCalls /\ [][NextSteps]_vars

-----------------------------------------------------------------------------
(* Reference calendar and string notions the properties are stated with *)

\* some call of get_date_range has returned
Called == period_name # NoPeriod

\* d written as YYYY-MM-DD, digit by digit
IsoDate(d) ==
    <<DigitChar(d.year \div 1000), DigitChar((d.year \div 100) % 10),
      DigitChar((d.year \div 10) % 10), DigitChar(d.year % 10), "-",
      DigitChar(d.month \div 10), DigitChar(d.month % 10), "-",
      DigitChar(d.day \div 10), DigitChar(d.day % 10)>>

\* s has the shape dddd-dd-dd
WellFormedIso(s) ==
    /\ Len(s) = 10
    /\ \A i \in {1, 2, 3, 4, 6, 7, 9, 10} : IsDigit(s[i])
    /\ s[5] = "-"
    /\ s[8] = "-"

\* the date a well-formed string names
ParseIso(s) ==
    [year |-> DigitVal(s[1]) * 1000 + DigitVal(s[2]) * 100 + DigitVal(s[3]) * 10
              + DigitVal(s[4]),
     month |-> DigitVal(s[6]) * 10 + DigitVal(s[7]),
     day |-> DigitVal(s[9]) * 10 + DigitVal(s[10])]

IsCalendarDate(d) ==
    /\ d.month \in 1..12
    /\ d.day \in 1..DaysInMonth(d.year, d.month)

\* days since 1970-01-01, by the era / day-of-era decomposition of the civil calendar
CivilDayNumber(d) ==
    LET y == IF d.month <= 2 THEN d.year - 1 ELSE d.year
        era == y \div 400
        yoe == y - era * 400
        mp == (d.month + 9) % 12
        doy == (153 * mp + 2) \div 5 + d.day - 1
        doe == yoe * 365 + (yoe \div 4) - (yoe \div 100) + doy
    IN  era * 146097 + doe - 719468

\* the day before date on the calendar
PrevDay(date) ==
    IF date.day > 1
    THEN [date EXCEPT !.day = date.day - 1]
    ELSE IF date.month > 1
    THEN [date EXCEPT !.month = date.month - 1,
                      !.day = DaysInMonth(date.year, date.month - 1)]
    ELSE [year |-> date.year - 1, month |-> 12, day |-> 31]

\* the date n days before date, walking the calendar back a month end at a time
RECURSIVE DaysBefore(_, _)
DaysBefore(date, n) ==
    IF n < date.day THEN [date EXCEPT !.day = date.day - n]
    ELSE DaysBefore(PrevDay([date EXCEPT !.day = 1]), n - date.day)

CharCode(c) ==
    CASE c = "-" -> 45
      [] IsDigit(c) -> 48 + DigitVal(c)
      [] c = "m" -> 109

\* a <= b as Python compares strings
RECURSIVE StrLeq(_, _)
StrLeq(a, b) ==
    IF a = <<>> THEN TRUE
    ELSE IF b = <<>> THEN FALSE
    ELSE IF Head(a) = Head(b) THEN StrLeq(Tail(a), Tail(b))
    ELSE CharCode(Head(a)) < CharCode(Head(b))

\* sub occurs in s
Contains(s, sub) ==
    \E i \in 1..(Len(s) - Len(sub) + 1) : SubSeq(s, i, i + Len(sub) - 1) = sub

Date(y, m, d) == [year |-> y, month |-> m, day |-> d]

Iso_2024_03_15 == <<"2", "0", "2", "4", "-", "0", "3", "-", "1", "5">>
Iso_2024_03_08 == <<"2", "0", "2", "4", "-", "0", "3", "-", "0", "8">>
Iso_2023_12_16 == <<"2", "0", "2", "3", "-", "1", "2", "-", "1", "6">>
Iso_2023_09_17 == <<"2", "0", "2", "3", "-", "0", "9", "-", "1", "7">>
Iso_2023_12_01 == <<"2", "0", "2", "3", "-", "1", "2", "-", "0", "1">>
Iso_2024_02_14 == <<"2", "0", "2", "4", "-", "0", "2", "-", "1", "4">>

\* the tags each variant's get_date_range names in its if/elif chain
OwnTags(v) ==
    IF v = "sshare" THEN {"last_week", "one_month", "three_months"}
    ELSE {"last_week", "last_4_weeks", "last_3_months", "last_6_months"}

-----------------------------------------------------------------------------
(* C1 *)

\* the offsets of the week, three-month and six-month tags
ListedOffset(v, name) ==
    CASE name = "last_week" -> 7
      [] v = "sshare" /\ name = "three_months" -> 90
      [] v # "sshare" /\ name = "last_3_months" -> 90
      [] v # "sshare" /\ name = "last_6_months" -> 180
      [] OTHER -> 0

\* C1: in every variant and at every reference date, the start returned for
\* "last_week", for the variant's three-month tag and for "last_6_months" is a
\* zero-padded YYYY-MM-DD string naming the calendar date 7, 90 and 180 days
\* before now; at 2024-03-15 the starts are 2024-03-08, 2023-12-16, 2023-09-17.
C1_StartOffsets ==
    (Called /\ ListedOffset(variant, period_name) > 0) =>
        /\ WellFormedIso(from_date)
        /\ IsCalendarDate(ParseIso(from_date))
        /\ CivilDayNumber(clock) - CivilDayNumber(ParseIso(from_date))
               = ListedOffset(variant, period_name)
        /\ clock = Date(2024, 3, 15) =>
               from_date = (CASE ListedOffset(variant, period_name) = 7 -> Iso_2024_03_08
                              [] ListedOffset(variant, period_name) = 90 -> Iso_2023_12_16
                              [] ListedOffset(variant, period_name) = 180 -> Iso_2023_09_17)

C1_Witness ==
    /\ variant = "hello"
    /\ period_name = "last_6_months"
    /\ clock = Date(2024, 3, 15)
    /\ from_date = Iso_2023_09_17
    /\ to_date = Iso_2024_03_15

-----------------------------------------------------------------------------
(* C2 *)

\* C2: "last_4_weeks" (hello.py, share.py, shharee.py) starts exactly 28 days
\* before now and "one_month" (sshare.py) exactly 30 days before now; neither
\* uses the other's offset.
C2_MonthScaleOffsets ==
    /\ (Called /\ variant # "sshare" /\ period_name = "last_4_weeks") =>
           /\ from_date = IsoDate(DaysBefore(clock, 28))
           /\ from_date # IsoDate(DaysBefore(clock, 30))
    /\ (Called /\ variant = "sshare" /\ period_name = "one_month") =>
           /\ from_date = IsoDate(DaysBefore(clock, 30))
           /\ from_date # IsoDate(DaysBefore(clock, 28))

C2_Witness ==
    /\ variant = "sshare"
    /\ period_name = "one_month"
    /\ clock = Date(2024, 3, 15)
    /\ from_date = Iso_2024_02_14

-----------------------------------------------------------------------------
(* C3 *)

\* C3: a period name outside the variant's own tags (another variant's tag
\* included) raises nothing and yields the pair that "last_week" yields at the
\* same date.
C3_UnknownTagIsLastWeek ==
    /\ (Called /\ period_name \notin OwnTags(variant)) =>
           <<from_date, to_date>> = GetDateRange(variant, "last_week", clock)
    /\ \A name \in PeriodNames \ OwnTags(variant) :
           GetDateRange(variant, name, clock) = GetDateRange(variant, "last_week", clock)

C3_Witness ==
    /\ variant = "hello"
    /\ period_name = "one_month"
    /\ clock = Date(2024, 3, 15)
    /\ from_date = Iso_2024_03_08

-----------------------------------------------------------------------------
(* C4 *)

\* C4: in each of the four variants both returned components are zero-padded
\* YYYY-MM-DD strings, and the end component is that formatting of now.
C4_BothComponentsIso ==
    Called =>
        /\ WellFormedIso(from_date)
        /\ WellFormedIso(to_date)
        /\ to_date = IsoDate(clock)

-----------------------------------------------------------------------------
(* C5 *)

\* C5: for every period name and reference date, in every variant, the
\* returned start is not after the returned end: start <= end as the strings
\* compare, and as dates wherever both components name a date.
C5_StartNotAfterEnd ==
    Called =>
        /\ StrLeq(from_date, to_date)
        /\ (WellFormedIso(from_date) /\ WellFormedIso(to_date)) =>
               CivilDayNumber(ParseIso(from_date)) <= CivilDayNumber(ParseIso(to_date))

C5_Witness ==
    /\ variant = "share"
    /\ period_name = "last_6_months"
    /\ clock = Date(2024, 1, 1)
    /\ StrLeq(from_date, to_date)
    /\ from_date # to_date

-----------------------------------------------------------------------------
(* C6 *)

\* the offset table of the specification, per variant
TableOffset(v, name) ==
    IF name \notin OwnTags(v) THEN 7
    ELSE CASE name = "last_week" -> 7
           [] name = "last_4_weeks" -> 28
           [] name = "one_month" -> 30
           [] name \in {"last_3_months", "three_months"} -> 90
           [] name = "last_6_months" -> 180

\* C6: the start is the calendar date exactly N days before now, counted day
\* by day across month ends, year ends and leap days; "last_3_months" at
\* 2024-02-29 starts at 2023-12-01.
C6_TrueCalendarSubtraction ==
    Called =>
        /\ from_date = IsoDate(DaysBefore(clock, TableOffset(variant, period_name)))
        /\ (clock = Date(2024, 2, 29) /\ variant # "sshare"
                /\ period_name = "last_3_months") => from_date = Iso_2023_12_01

C6_Witness ==
    /\ variant = "hello"
    /\ period_name = "last_3_months"
    /\ clock = Date(2024, 2, 29)
    /\ from_date = Iso_2023_12_01

-----------------------------------------------------------------------------
(* C7 *)

\* C7: a call of get_date_range returns the pair determined by its argument and
\* the clock reading alone, whatever calls came before, and it changes nothing
\* besides its own result; between calls the result does not change.
C7_PureFunctionOfNameAndClock ==
    [][IF ticks' = ticks
       THEN /\ today' = clock
            /\ <<from_date', to_date'>> = GetDateRange(variant, period_name', clock)
            /\ UNCHANGED <<variant, clock, pc>>
            /\ UNCHANGED appVars
       ELSE UNCHANGED resolverVars]_vars

C7_Witness ==
    /\ ticks = MaxTicks
    /\ period_name = "last_3_months"
    /\ today = clock
    /\ to_date = IsoDate(clock)
    /\ variant = "share"

-----------------------------------------------------------------------------
(* C8 *)

Str_Suffix ==
    <<" ", "A", "N", "D", " ", "(", "s", "t", "o", "c", "k", " ", "O", "R", " ",
      "m", "a", "r", "k", "e", "t", " ", "O", "R", " ", "N", "S", "E", " ", "O", "R",
      " ", "B", "S", "E", ")">>

Min(a, b) == IF a < b THEN a ELSE b

\* tickers 1..k of list, each after the first preceded by " OR "
RECURSIVE OrGroup(_, _)
OrGroup(list, k) ==
    IF k = 0 THEN <<>>
    ELSE IF k = 1 THEN list[1]
    ELSE OrGroup(list, k - 1) \o <<" ", "O", "R", " ">> \o list[k]

\* C8: for a non-empty stock list the query is the first min(len, 15) tickers
\* in list order, joined by " OR " in one parenthesised group and followed by
\* " AND (stock OR market OR NSE OR BSE)"; no ticker from position 16 on occurs
\* in it.
C8_QueryOfFirstFifteen ==
    /\ "get_everything" \in calls => stock_list # <<>>
    /\ ("fetch_news_for_stocks" \in calls /\ stock_list # <<>>
            /\ "api_key_missing" \notin shown) =>
           /\ "get_everything" \in calls
           /\ query = <<"(">> \o OrGroup(stock_list, Min(Len(stock_list), 15))
                          \o <<")">> \o Str_Suffix
           /\ \A i \in 1..Len(stock_list) :
                  Contains(query, stock_list[i]) <=> i <= 15

C8_Witness ==
    /\ Len(stock_list) > 15
    /\ "get_everything" \in calls
    /\ Contains(query, stock_list[15])
    /\ ~Contains(query, stock_list[16])

-----------------------------------------------------------------------------
(* C9 *)

\* no credential was supplied: the sidebar field is empty, or NEWS_API_KEY
\* still holds the text the file ships with
NoCredentialSupplied ==
    \/ variant \in {"hello", "sshare"} /\ api_key = ""
    \/ variant = "share" /\ api_key = "YOUR_API_KEY_HERE"

\* C9: when no credential was supplied, the action does not invoke
\* NewsApiClient.get_everything, whatever list and period were selected.
C9_NoSearchWithoutCredential ==
    NoCredentialSupplied => "get_everything" \notin calls

C9_Witness ==
    /\ variant = "share"
    /\ NoCredentialSupplied
    /\ "fetch_news_for_stocks" \in calls
    /\ Len(stock_list) > 0
    /\ "api_key_missing" \in shown

-----------------------------------------------------------------------------
(* C10 *)

\* C10: when the selected fetcher returns an empty list the action halts
\* before any news search: neither get_date_range nor the news service is
\* invoked, the error message is shown, and share.py is back at its menu.
C10_EmptyListHalts ==
    ("stock_list_func" \in calls /\ stock_list = <<>>) =>
        /\ "get_date_range" \notin calls
        /\ "fetch_news_for_stocks" \notin calls
        /\ "get_everything" \notin calls
        /\ "could_not_retrieve" \in shown
        /\ variant = "share" => pc = "menu"

C10_Witness ==
    /\ variant = "sshare"
    /\ category = "fno"
    /\ "stock_list_func" \in calls
    /\ stock_list = <<>>
    /\ "could_not_retrieve" \in shown

-----------------------------------------------------------------------------
(* C11 *)

FailureMessages ==
    {"invalid_choice", "could_not_retrieve", "api_key_missing", "news_error", "no_news"}

\* C11: in share.py no failure ends the loop: after an invalid menu choice, an
\* empty symbol list, a missing credential, an exception of the news search or
\* zero results, main is back at the menu prompt; only the choice '0' ends it.
C11_OnlyExitEndsLoop ==
    [][variant = "share" =>
           /\ pc' \in {"menu", "exited"}
           /\ pc' # pc => (pc = "menu" /\ MainLoopIteration("0"))
           /\ (pc = "menu" /\ shown' \cap FailureMessages # {}) => pc' = "menu"]_vars

C11_Witness ==
    /\ variant = "share"
    /\ pc = "menu"
    /\ "news_error" \in shown
    /\ "get_everything" \in calls

-----------------------------------------------------------------------------
(* C12 *)

\* C12: in hello.py and sshare.py a failed symbol-list fetch is recoverable:
\* when Get News for a category has just failed on an upstream error (the
\* fetcher contacted the remote and returned []), and the upstream is healthy
\* again and lists symbols, the next Get News for the same category contacts
\* the remote again and obtains the non-empty list.
C12_FailedFetchRecoverable ==
    [][(/\ variant \in {"hello", "sshare"}
        /\ shown = {"could_not_retrieve"}
        /\ "remote_fetch" \in calls
        /\ upstream = "healthy"
        /\ remoteLen > 0
        /\ upstream' = upstream
        /\ "stock_list_func" \in calls'
        /\ category' = category)
       => ("remote_fetch" \in calls' /\ stock_list' # <<>>)]_vars

-----------------------------------------------------------------------------
(* C13 *)

\* first character of the symbols each list category holds upstream
CategoryInitial(c) ==
    CASE c = "fno" -> "F"
      [] c = "NIFTY 100" -> "L"
      [] c = "NIFTY MIDCAP 150" -> "M"
      [] c = "NIFTY SMALLCAP 250" -> "S"

\* a run of the script that called a list fetcher
FetcherCalled == upstream' = upstream /\ "stock_list_func" \in calls'

\* what one step may do to the store of the cached fetchers
CacheStep ==
    /\ \A s \in Sources : cache[s].stored => cache'[s] = cache[s]
    /\ FetcherCalled =>
          /\ ("remote_fetch" \in calls') <=> ~cache[category'].stored
          /\ cache[category'].stored =>
                 (stock_list' = cache[category'].value /\ cache' = cache)
          /\ ~cache[category'].stored =>
                 (cache' = [cache EXCEPT ![category'] =
                               [stored |-> TRUE, value |-> stock_list']])
          /\ stock_list' \notin {<<>>, BackupList} =>
                 (\A i \in 1..Len(stock_list') :
                     Head(stock_list'[i]) = CategoryInitial(category'))

\* C13: across script runs a cached fetcher downloads a list category at most
\* once: a call contacts the remote only when nothing is stored for its
\* argument, and stores its result then; what is stored is never replaced or
\* dropped; a later call with the same argument returns the stored list and
\* contacts nothing; a call for another index_name is not served from this
\* index's entry, its list is its own category's.
C13_DownloadedAtMostOnce ==
    [][(variant \in {"hello", "sshare"}) => CacheStep]_vars

C13_Witness ==
    /\ variant = "hello"
    /\ upstream = "failing"
    /\ "stock_list_func" \in calls
    /\ "remote_fetch" \notin calls
    /\ stock_list # <<>>
    /\ \E s \in Sources \ {category} : cache[s].stored

-----------------------------------------------------------------------------
(* C14 *)

\* C14: every period tag the interface passes to get_date_range is one that the
\* same variant's get_date_range compares against in its if/elif chain: the
\* values of period_options in hello.py and sshare.py, and in share.py the tags
\* of the choices a-d and "last_week" for an invalid choice. The final else of
\* the resolver is never taken by a call made through the menu.
C14_MenuTagsRecognised ==
    (variant \in {"hello", "sshare", "share"} /\ "get_date_range" \in calls)
        => period_name \in OwnTags(variant)

C14_Witness ==
    /\ variant = "share"
    /\ "get_date_range" \in calls
    /\ "invalid_period" \in shown
    /\ period_name = "last_week"

-----------------------------------------------------------------------------
(* C15 *)

\* get_date_range has returned
Returned == pc = "call" /\ "get_date_range" \in calls

\* C15: every invocation of get_date_range derives start and end from one
\* reading of the clock, so whenever it has returned, even when midnight fell
\* between its statements, the two returned dates lie exactly the period's
\* offset in days apart.
C15_DistanceIsOffset ==
    Returned =>
        /\ WellFormedIso(from_date)
        /\ WellFormedIso(to_date)
        /\ CivilDayNumber(ParseIso(to_date)) - CivilDayNumber(ParseIso(from_date))
               = TableOffset(variant, period_name)

====
